---- MODULE Spec2Model ----
(***************************************************************************)
(* The catalog screen of src/app/components/CatalogPage.tsx: the derived   *)
(* product list (search filter, category filter, sort) and the infinite-   *)
(* scroll pagination over it.                                              *)
(*                                                                         *)
(* Strings are sequences of UTF-16 code units (65..90 = 'A'..'Z',          *)
(* 97..122 = 'a'..'z', 32 = ' ', 45 = '-').  Numbers (price, rating) are   *)
(* integers; ratings are scaled by 10.  A product object is its index in   *)
(* ProductTable; an array of products is a sequence of such indices, as a  *)
(* JavaScript array holds references to the product objects.               *)
(*                                                                         *)
(* React: a handler of an input, select or click event sets state and      *)
(* React renders and runs the effects before the event ends; that is one   *)
(* step.  A scroll handler and a timer callback only queue their updates:  *)
(* React renders them, and registers the scroll listener anew, in a later  *)
(* task (Rerender), and scroll events handled before that task still run   *)
(* the listener of the earlier render with what its closure holds.         *)
(***************************************************************************)
EXTENDS Integers, Sequences, FiniteSets, TLC

\* ------------------------------------------------------------------ bounds

\* generateMoreProducts(allProducts, 200): the number of generated variants.
MoreCount == 22

\* The outcomes of Math.random() are drawn from NumSeeds pseudo-random streams.
NumSeeds == 1

\* Load timers that may be pending at once.
MaxTimers == 2

\* Changes of a filter input while the screen scrolls and loads.
MaxFilterChanges == 1

\* --------------------------------------------------------------- constants

PRODUCTS_PER_LOAD == 12

\* ----------------------------------------------------------------- strings

Min(a, b) == IF a < b THEN a ELSE b

IsUpper(c) == c >= 65 /\ c <= 90

IsLower(c) == c >= 97 /\ c <= 122

\* String.prototype.toLowerCase
ToLowerCase(s) == [i \in 1..Len(s) |-> IF IsUpper(s[i]) THEN s[i] + 32 ELSE s[i]]

\* String.prototype.includes
Includes(s, t) ==
    \E k \in 0..(Len(s) - Len(t)) : \A j \in 1..Len(t) : s[k + j] = t[j]

\* Primary collation weight of a code unit: space, then hyphen, then the
\* letters without regard to case.
PrimaryWeight(c) ==
    IF c = 32 THEN 1
    ELSE IF c = 45 THEN 2
    ELSE IF IsUpper(c) THEN c - 65 + 10
    ELSE IF IsLower(c) THEN c - 97 + 10
    ELSE c + 100

\* Tertiary collation weight: a lower-case letter before its upper-case one.
TertiaryWeight(c) == IF IsUpper(c) THEN 1 ELSE 0

RECURSIVE CompareWeights(_, _, _, _)
CompareWeights(a, b, i, level) ==
    IF i > Len(a) /\ i > Len(b) THEN 0
    ELSE IF i > Len(a) THEN -1
    ELSE IF i > Len(b) THEN 1
    ELSE LET wa == IF level = 1 THEN PrimaryWeight(a[i]) ELSE TertiaryWeight(a[i])
             wb == IF level = 1 THEN PrimaryWeight(b[i]) ELSE TertiaryWeight(b[i])
         IN  IF wa < wb THEN -1
             ELSE IF wa > wb THEN 1
             ELSE CompareWeights(a, b, i + 1, level)

\* String.prototype.localeCompare: the strings' primary weights decide; when
\* these agree, the case of the first letter that differs in case decides.
LocaleCompare(a, b) ==
    LET primary == CompareWeights(a, b, 1, 1)
    IN  IF primary # 0 THEN primary ELSE CompareWeights(a, b, 1, 3)

\* ----------------------------------------------------------------- catalog

\* featuredProducts and bestSellingProducts of ../data/products: three
\* products, in two categories.
featuredProducts ==
    << [id |-> <<49>>,                                    \* "1"
        name |-> <<72, 105>>,                               \* "Hi"
        description |-> <<72, 68, 32, 115, 101, 116>>,       \* "HD set"
        category |-> <<116, 118>>,                           \* "tv"
        price |-> 5, rating |-> 45],
       [id |-> <<50>>,                                    \* "2"
        name |-> <<72, 80>>,                                \* "HP"
        description |-> <<109, 105, 110, 105, 32, 80, 67>>,  \* "mini PC"
        category |-> <<112, 99>>,                            \* "pc"
        price |-> 3, rating |-> 45] >>

bestSellingProducts ==
    << [id |-> <<51>>,                                    \* "3"
        name |-> <<76, 71>>,                                \* "LG"
        description |-> <<102, 97, 115, 116>>,               \* "fast"
        category |-> <<116, 118>>,                           \* "tv"
        price |-> 5, rating |-> 40] >>

allProducts == featuredProducts \o bestSellingProducts

\* The value Math.random() contributes to a generated product, in 0..(m-1).
Random(stream, i, m) == (i * i * stream + i + stream) % m

\* " - Model "
ModelInfix == <<32, 45, 32, 77, 111, 100, 101, 108, 32>>

\* The decimal digits of a number, as a template literal formats it.
RECURSIVE NumberToString(_)
NumberToString(n) ==
    IF n < 10 THEN <<48 + n>>
    ELSE Append(NumberToString(n \div 10), 48 + (n % 10))

RECURSIVE generateMoreProducts(_, _, _)
generateMoreProducts(baseProducts, count, stream) ==
    IF count = 0 THEN << >>
    ELSE LET i == count - 1
             baseProduct == baseProducts[(i % Len(baseProducts)) + 1]
         IN  Append(generateMoreProducts(baseProducts, count - 1, stream),
                    [baseProduct EXCEPT
                        !.id = baseProduct.id \o <<45>> \o NumberToString(i + 100),
                        !.name = baseProduct.name \o ModelInfix \o <<65 + (i % 26)>>,
                        !.price = baseProduct.price + Random(stream, i, 3) - 1,
                        !.rating = 35 + Random(stream, i + 1, 4) * 5])

Seeds == 1..NumSeeds

NumProducts == Len(allProducts) + MoreCount

Ids == 1..NumProducts

\* The function f on 1..n as a tuple.
Tuple(f, n) == SubSeq(f, 1, n)

\* The product objects of the module-level array of line 33, per random
\* stream: extendedProducts = [...allProducts, ...generateMoreProducts(...)].
ProductTable ==
    Tuple([stream \in Seeds |->
              allProducts \o generateMoreProducts(allProducts, MoreCount, stream)],
          NumSeeds)

\* ------------------------------------------------------------------ inputs

\* The texts typed into the search box: "", "hp", "MODEL", "pc", "hd", "qq",
\* "tv".
QueryList ==
    << << >>, <<104, 112>>, <<77, 79, 68, 69, 76>>, <<112, 99>>, <<104, 100>>,
       <<113, 113>>, <<116, 118>> >>

Queries == {QueryList[i] : i \in 1..Len(QueryList)}

\* The texts typed while the screen scrolls and loads: "", "hp", "qq".
ScreenQueries == {QueryList[1], QueryList[2], QueryList[6]}

\* The ids of the static category list, ../data/products: "tv", "pc".
categories == { <<116, 118>>, <<112, 99>> }

\* null, the value of currentCategory when no category is selected; like the
\* empty string it is falsy.
Null == << >>

SortKeys == {"name", "price-low", "price-high", "rating"}

\* The sort keys chosen while the screen scrolls and loads.
ScreenSortKeys == {"name", "price-low"}

\* ------------------------------------------------------------------- state

VARIABLES
    seed,               \* the random stream that generated the catalog
    extendedProducts,   \* the module-level catalog array (line 33)
    localSearchQuery,   \* useState, line 48
    currentCategory,    \* useState, line 45
    sortBy,             \* useState, line 46
    filteredProducts,   \* the value of the useMemo of line 53: an array reference
    displayedProducts,  \* useState, line 42
    loading,            \* useState, line 43
    hasMore,            \* useState, line 44
    handleScroll,       \* the registered scroll listener: what its closure holds
    timers,             \* the pending setTimeout callbacks, in firing order
    filterChanges       \* the filter-input changes so far, up to MaxFilterChanges

vars == << seed, extendedProducts, localSearchQuery, currentCategory, sortBy,
           filteredProducts, displayedProducts, loading, hasMore, handleScroll,
           timers, filterChanges >>

\* The product object an array element refers to.
Product(id) == ProductTable[seed][id]

\* Array.prototype.slice(begin, end) with 0 <= begin <= end.
Slice(arr, begin, end) == SubSeq(arr, begin + 1, Min(end, Len(arr)))

\* An array reference: the module-level array itself (alias), or an array of
\* its own made by Array.prototype.filter.
TheCatalog == [alias |-> TRUE, items |-> << >>]

FreshArray(items) == [alias |-> FALSE, items |-> items]

\* The present content of the array a reference points to.
Deref(ref) == IF ref.alias THEN extendedProducts ELSE ref.items

\* Object.is on two array references, one of them just made by the memo: a
\* filter result is identical to no other array.
SameReference(r1, r2) == r1.alias /\ r2.alias

\* ------------------------------------------------- filteredProducts (useMemo)

Truthy(s) == s # << >>

\* MatchesSearch with the typed text taken as it is, not lower-cased.
MatchesSearchCaseOfQuery(p, query) ==
    \/ Includes(ToLowerCase(p.name), query)
    \/ Includes(ToLowerCase(p.description), query)
    \/ Includes(ToLowerCase(p.category), query)

\* The predicate of the search filter, lines 58-62.
MatchesSearch(p, query) ==
    \/ Includes(ToLowerCase(p.name), ToLowerCase(query))
    \/ Includes(ToLowerCase(p.description), ToLowerCase(query))
    \/ Includes(ToLowerCase(p.category), ToLowerCase(query))

\* MatchesSearch of every product object for every text of QueryList,
\* computed once: the text fields of a product never change.
SearchMatches ==
    Tuple([stream \in Seeds |->
             Tuple([q \in 1..Len(QueryList) |->
                      Tuple([id \in Ids |->
                               MatchesSearch(ProductTable[stream][id], QueryList[q])],
                            NumProducts)],
                   Len(QueryList))],
          NumSeeds)

QueryIndex(query) == CHOOSE q \in 1..Len(QueryList) : QueryList[q] = query

\* The predicate of the category filter, line 67.
MatchesCategory(p, category) == p.category = category

\* a.name.localeCompare(b.name) of every two product objects, computed once.
NameComparison ==
    Tuple([stream \in Seeds |->
             Tuple([a \in Ids |->
                      Tuple([b \in Ids |->
                               LocaleCompare(ProductTable[stream][a].name,
                                             ProductTable[stream][b].name)],
                            NumProducts)],
                   NumProducts)],
          NumSeeds)

\* Compare with the comparator of 'price-low' under 'price-high' as well.
CompareAscendingPrice(key, a, b) ==
    CASE key = "price-low" -> Product(a).price - Product(b).price
      [] key = "price-high" -> Product(a).price - Product(b).price
      [] key = "rating" -> Product(b).rating - Product(a).rating
      [] OTHER -> NameComparison[seed][a][b]

\* The comparator of filtered.sort, lines 71-85: negative, zero or positive.
Compare(key, a, b) ==
    CASE key = "price-low" -> Product(a).price - Product(b).price
      [] key = "price-high" -> Product(b).price - Product(a).price
      [] key = "rating" -> Product(b).rating - Product(a).rating
      [] OTHER -> NameComparison[seed][a][b]

\* The sorted array arr with x put after its last element that does not
\* compare greater than x; the elements after place j all compare greater.
RECURSIVE InsertSorted(_, _, _, _)
InsertSorted(arr, x, key, j) ==
    IF j = 0 THEN <<x>> \o arr
    ELSE IF Compare(key, arr[j], x) > 0
    THEN InsertSorted(arr, x, key, j - 1)
    ELSE SubSeq(arr, 1, j) \o <<x>> \o SubSeq(arr, j + 1, Len(arr))

\* Array.prototype.sort with a comparator: a stable sort.
RECURSIVE SortFrom(_, _, _)
SortFrom(arr, key, n) ==
    IF n = 0 THEN << >>
    ELSE LET sorted == SortFrom(arr, key, n - 1)
         IN  InsertSorted(sorted, arr[n], key, Len(sorted))

Sort(arr, key) == SortFrom(arr, key, Len(arr))

\* filtered.filter(...) of lines 58-62: a new array.
RECURSIVE SearchFilter(_, _, _)
SearchFilter(arr, query, n) ==
    IF n = 0 THEN << >>
    ELSE LET rest == SearchFilter(arr, query, n - 1)
         IN  IF SearchMatches[seed][QueryIndex(query)][arr[n]]
             THEN Append(rest, arr[n])
             ELSE rest

\* filtered.filter(...) of line 67: a new array.
RECURSIVE CategoryFilter(_, _, _)
CategoryFilter(arr, category, n) ==
    IF n = 0 THEN << >>
    ELSE LET rest == CategoryFilter(arr, category, n - 1)
         IN  IF MatchesCategory(Product(arr[n]), category)
             THEN Append(rest, arr[n])
             ELSE rest

\* The body of the useMemo, lines 54-87, run on the catalog array `catalog`:
\* the reference it returns and the catalog array as the sort leaves it.
\* With neither filter set, `filtered` is the catalog array itself and
\* filtered.sort sorts that array in place.
Derive(catalog, query, category, key) ==
    LET searched == IF Truthy(query)
                    THEN SearchFilter(catalog, query, Len(catalog))
                    ELSE catalog
        filtered == IF Truthy(category)
                    THEN CategoryFilter(searched, category, Len(searched))
                    ELSE searched
    IN  IF Truthy(query) \/ Truthy(category)
        THEN [ref |-> FreshArray(Sort(filtered, key)), catalog |-> catalog]
        ELSE [ref |-> TheCatalog, catalog |-> Sort(catalog, key)]

\* ------------------------------------------------------------ render, effects

\* What the closure of a render holds of the state: loadMoreProducts reads
\* loading and hasMore (line 91), and its timer callback reads
\* displayedProducts.length and filteredProducts (lines 97-98).
Closure(isLoading, more, displayed, filtered) ==
    [loading |-> isLoading, hasMore |-> more,
     length |-> Len(displayed), filteredProducts |-> filtered]

\* The reset effect of lines 111-114, run on the array the memo returned.
ResetDisplayed(items) == Slice(items, 0, PRODUCTS_PER_LOAD)

ResetHasMore(items) == Len(items) > PRODUCTS_PER_LOAD

\* A filter input was set to another value by an input, select or click
\* handler: React renders before the event ends.  The memo runs, one of its
\* dependencies (line 88) having changed; the reset effect runs when the memo
\* returned another array than before (line 114); the scroll listener is
\* registered anew with the closure of the last render (lines 117-129).
RenderFilters(query, category, key) ==
    /\ localSearchQuery' = query
    /\ currentCategory' = category
    /\ sortBy' = key
    /\ LET d == Derive(extendedProducts, query, category, key)
           items == IF d.ref.alias THEN d.catalog ELSE d.ref.items
       IN  /\ extendedProducts' = d.catalog
           /\ filteredProducts' = d.ref
           /\ IF SameReference(filteredProducts, d.ref)
              THEN UNCHANGED << displayedProducts, hasMore >>
              ELSE /\ displayedProducts' = ResetDisplayed(items)
                   /\ hasMore' = ResetHasMore(items)
    /\ handleScroll' = Closure(loading, hasMore', displayedProducts', filteredProducts')
    /\ filterChanges' = Min(filterChanges + 1, MaxFilterChanges)
    /\ UNCHANGED << seed, loading, timers >>

\* -------------------------------------------------------------------- Init

\* The screen after it mounted: the props searchQuery and selectedCategory
\* are the first filter inputs (lines 39-48), the memo and both effects ran.
Init ==
    /\ seed \in Seeds
    /\ localSearchQuery \in Queries
    /\ currentCategory \in {Null} \cup categories
    /\ sortBy = "name"
    /\ LET d == Derive(Tuple([i \in Ids |-> i], NumProducts), localSearchQuery,
                        currentCategory, "name")
           items == IF d.ref.alias THEN d.catalog ELSE d.ref.items
       IN  /\ extendedProducts = d.catalog
           /\ filteredProducts = d.ref
           /\ displayedProducts = ResetDisplayed(items)
           /\ hasMore = ResetHasMore(items)
           /\ handleScroll = Closure(FALSE, ResetHasMore(items), ResetDisplayed(items), d.ref)
    /\ loading = FALSE
    /\ timers = << >>
    /\ filterChanges = 0

\* ----------------------------------------------------------------- actions

\* onChange of the search input and its clear button, lines 198, 204.
setLocalSearchQuery(query) ==
    /\ query # localSearchQuery
    /\ RenderFilters(query, currentCategory, sortBy)

\* onClick of a category tab, lines 303, 317.
setCurrentCategory(category) ==
    /\ category # currentCategory
    /\ RenderFilters(localSearchQuery, category, sortBy)

\* onChange of the sort select, line 215.
setSortBy(key) ==
    /\ key # sortBy
    /\ RenderFilters(localSearchQuery, currentCategory, key)

\* onClick of "Clear all filters", lines 338-341; the button is rendered only
\* in the empty-result branch, line 334.
ClearAllFilters ==
    /\ Len(displayedProducts) = 0 /\ ~loading
    /\ <<localSearchQuery, currentCategory>> # << << >>, Null >>
    /\ RenderFilters(<< >>, Null, sortBy)

\* LoadGuard without the test of hasMore.
LoadGuardLoadingOnly(closure) == closure.loading

\* The guard of loadMoreProducts, line 91, on what its closure holds.
LoadGuard(closure) == closure.loading \/ ~closure.hasMore

\* A scroll event near the end of the page: the registered handleScroll calls
\* the loadMoreProducts of its render, lines 90-108, 118-125.
loadMoreProducts ==
    /\ Len(timers) < MaxTimers
    /\ IF LoadGuard(handleScroll)
       THEN UNCHANGED vars
       ELSE /\ loading' = TRUE
            /\ timers' = Append(timers, [length |-> handleScroll.length,
                                         filteredProducts |-> handleScroll.filteredProducts])
            /\ UNCHANGED << seed, extendedProducts, localSearchQuery, currentCategory,
                            sortBy, filteredProducts, displayedProducts, hasMore,
                            handleScroll, filterChanges >>

\* NextProducts from the state as it is when the callback runs, not from what
\* the callback's closure holds.
NextProductsOfState(timer) ==
    Slice(Deref(filteredProducts), Len(displayedProducts),
          Len(displayedProducts) + PRODUCTS_PER_LOAD)

\* The slice a timer callback takes, lines 97-98.
NextProducts(timer) ==
    Slice(Deref(timer.filteredProducts), timer.length, timer.length + PRODUCTS_PER_LOAD)

\* React has yet to render an update that a scroll handler or a timer callback
\* queued, and to register handleScroll anew.
RenderPending ==
    handleScroll # Closure(loading, hasMore, displayedProducts, filteredProducts)

\* The setTimeout callback of lines 96-107; timers of one delay fire in the
\* order they were set.  React renders a queued update within the 500 ms of a
\* timer, so no render is pending when a callback runs.
TimerCallback ==
    /\ timers # << >>
    /\ ~RenderPending
    /\ LET nextProducts == NextProducts(Head(timers))
       IN  IF Len(nextProducts) = 0
           THEN /\ hasMore' = FALSE
                /\ UNCHANGED displayedProducts
           ELSE /\ displayedProducts' = displayedProducts \o nextProducts
                /\ UNCHANGED hasMore
    /\ loading' = FALSE
    /\ timers' = Tail(timers)
    /\ UNCHANGED << seed, extendedProducts, localSearchQuery, currentCategory, sortBy,
                    filteredProducts, handleScroll, filterChanges >>

\* React renders the updates a scroll handler or a timer callback queued and
\* runs the effect of lines 117-129, which registers handleScroll anew with
\* the closure of that render.
Rerender ==
    /\ RenderPending
    /\ handleScroll' = Closure(loading, hasMore, displayedProducts, filteredProducts)
    /\ UNCHANGED << seed, extendedProducts, localSearchQuery, currentCategory, sortBy,
                    filteredProducts, displayedProducts, loading, hasMore, timers,
                    filterChanges >>

\* The filter inputs change and nothing scrolls.
NextFilters ==
    \/ \E query \in Queries : setLocalSearchQuery(query)
    \/ \E category \in {Null} \cup categories : setCurrentCategory(category)
    \/ \E key \in SortKeys : setSortBy(key)

SpecFilters == Init /\ [][NextFilters]_vars

\* The user may change a filter input.
MayChange == filterChanges < MaxFilterChanges

Next ==
    \/ MayChange /\ \E query \in ScreenQueries : setLocalSearchQuery(query)
    \/ MayChange /\ \E category \in {Null} \cup categories : setCurrentCategory(category)
    \/ MayChange /\ \E key \in ScreenSortKeys : setSortBy(key)
    \/ MayChange /\ ClearAllFilters
    \/ loadMoreProducts
    \/ TimerCallback
    \/ Rerender

\* The screen mounted over the catalog of the first random stream, with one
\* of the texts typed while it scrolls.
InitScreen == Init /\ seed = 1 /\ localSearchQuery \in ScreenQueries

Spec == InitScreen /\ [][Next]_vars

\* The event loop runs every timer callback that is due, and React every
\* render it scheduled.
FairSpec == Spec /\ WF_vars(TimerCallback) /\ WF_vars(Rerender)

\* The same, while the user keeps scrolling to the end of the page: a scroll
\* event that would start a load is eventually handled.
ScrollingSpec == FairSpec /\ WF_vars(loadMoreProducts)

\* ------------------------------------------------------------------ claims

\* The present content of the filtered result.
Filtered == Deref(filteredProducts)

\* A filter input (search text, category, sort key) changes in this step.
FilterChanged ==
    <<localSearchQuery, currentCategory, sortBy>>' #
        <<localSearchQuery, currentCategory, sortBy>>

\* C1: in every reachable state the number of displayed products is at most
\* the number of products in the current filtered result.
C1_DisplayedAtMostFiltered == Len(displayedProducts) <= Len(Filtered)

\* C2: in every reachable state hasMore is true exactly when fewer products
\* are displayed than the current filtered result holds.
C2_HasMoreIffUndisplayed == hasMore = (Len(displayedProducts) < Len(Filtered))

\* C3: a change of any filter input resets the displayed products to the first
\* min(12, length) items of the newly derived filtered result and recomputes
\* hasMore.
C3_FilterChangeResets ==
    [][FilterChanged =>
         /\ displayedProducts' = SubSeq(Filtered', 1, Min(12, Len(Filtered')))
         /\ hasMore' = (Len(Filtered') > 12)]_vars

\* C4: a loadMore call made while loading is true or hasMore is false changes
\* nothing: displayedProducts, hasMore and loading are unchanged and no load
\* timer is scheduled.
C4_GuardedLoadMoreIsNoOp ==
    [][(loadMoreProducts /\ (loading \/ ~hasMore)) =>
         UNCHANGED << displayedProducts, hasMore, loading, timers >>]_vars

\* C5: at most one load is in flight at any time: no second load timer is
\* scheduled until the pending one has cleared loading.
C5_OneLoadInFlight == Len(timers) <= 1

\* Two code units are the same letter up to case, or the same code unit.
SameIgnoringCase(a, b) ==
    \/ a = b
    \/ IsUpper(a) /\ b = a + 32
    \/ IsUpper(b) /\ a = b + 32

\* The text query occurs in text, case-insensitively.
OccursIgnoringCase(text, query) ==
    \E k \in 0..(Len(text) - Len(query)) :
        \A j \in 1..Len(query) : SameIgnoringCase(text[k + j], query[j])

\* The product satisfies the present search text and category.
SatisfiesFilters(id) ==
    /\ \/ localSearchQuery = << >>
       \/ OccursIgnoringCase(Product(id).name, localSearchQuery)
       \/ OccursIgnoringCase(Product(id).description, localSearchQuery)
       \/ OccursIgnoringCase(Product(id).category, localSearchQuery)
    /\ \/ currentCategory = Null
       \/ Product(id).category = currentCategory

\* C6: for every search text, category and sort key the filtered result holds
\* exactly the catalog products that satisfy (search text empty, or occurring
\* case-insensitively in name, description or category) and (no category
\* selected, or the product's category is the selected one), each once, and
\* no product outside the catalog.
C6_FilteredIsTheMatchingProducts ==
    /\ \A i \in 1..Len(Filtered) : Filtered[i] \in Ids
    /\ {Filtered[i] : i \in 1..Len(Filtered)} = {id \in Ids : SatisfiesFilters(id)}
    /\ Len(Filtered) = Cardinality({id \in Ids : SatisfiesFilters(id)})

\* A search text in upper case and a category are set, and some but not all
\* products of the catalog are in the result.
C6_Witness ==
    /\ filterChanges > 0
    /\ localSearchQuery = <<77, 79, 68, 69, 76>>
    /\ currentCategory = <<112, 99>>
    /\ Len(Filtered) > 0
    /\ Len(Filtered) < NumProducts

\* The < of the language on strings: code unit by code unit.
RECURSIVE CodeUnitLess(_, _, _)
CodeUnitLess(a, b, i) ==
    IF i > Len(b) THEN FALSE
    ELSE IF i > Len(a) THEN TRUE
    ELSE IF a[i] < b[i] THEN TRUE
    ELSE IF a[i] > b[i] THEN FALSE
    ELSE CodeUnitLess(a, b, i + 1)

\* a <= b on strings.
StringLessEq(a, b) == a = b \/ CodeUnitLess(a, b, 1)

\* Product a may stand right before product b under the sort key, names
\* compared as localeCompare compares them.
InOrder(key, a, b) ==
    CASE key = "name" -> LocaleCompare(Product(a).name, Product(b).name) <= 0
      [] key = "price-low" -> Product(a).price <= Product(b).price
      [] key = "price-high" -> Product(a).price >= Product(b).price
      [] key = "rating" -> Product(a).rating >= Product(b).rating

\* The same, names compared with the <= of strings.
InOrderByCodeUnits(key, a, b) ==
    IF key = "name"
    THEN StringLessEq(Product(a).name, Product(b).name)
    ELSE InOrder(key, a, b)

\* C7 as stated: every adjacent pair of the filtered result is in the order of
\* the sort key, name[i] <= name[i+1] under 'name'.
C7_SortedWithNamesByCodeUnits ==
    \A i \in 1..(Len(Filtered) - 1) :
        InOrderByCodeUnits(sortBy, Filtered[i], Filtered[i + 1])

\* C7, amended: every adjacent pair of the filtered result is in the order of
\* the sort key: price[i] <= price[i+1] under 'price-low', price[i] >=
\* price[i+1] under 'price-high', rating[i] >= rating[i+1] under 'rating', and
\* name[i].localeCompare(name[i+1]) <= 0 under 'name'.
C7_SortedBySortKey ==
    \A i \in 1..(Len(Filtered) - 1) : InOrder(sortBy, Filtered[i], Filtered[i + 1])

\* A result sorted by name in which localeCompare and <= disagree on a pair.
C7_Witness ==
    /\ filterChanges > 0
    /\ sortBy = "name"
    /\ \E i \in 1..(Len(Filtered) - 1) :
          ~StringLessEq(Product(Filtered[i]).name, Product(Filtered[i + 1]).name)

IsPrefix(prefix, arr) ==
    /\ Len(prefix) <= Len(arr)
    /\ \A i \in 1..Len(prefix) : prefix[i] = arr[i]

\* C9: in every reachable state the displayed products are a prefix of the
\* current filtered result, and between two filter-input changes that prefix
\* only grows.
C9_DisplayedIsGrowingPrefix ==
    /\ [](IsPrefix(displayedProducts, Filtered))
    /\ [][~FilterChanged => IsPrefix(displayedProducts, displayedProducts')]_vars

\* The slice of the array a timer's closure refers to, from the displayed
\* length the closure holds.
CapturedSlice(timer) ==
    LET arr == IF timer.filteredProducts.alias THEN extendedProducts
               ELSE timer.filteredProducts.items
    IN  SubSeq(arr, timer.length + 1, Min(timer.length + 12, Len(arr)))

\* This step is the callback of the oldest pending timer: it applies the slice
\* of its closure, or sets hasMore to false when that slice is empty, and sets
\* loading to false.
LoadCompleted ==
    /\ timers # << >>
    /\ timers' = Tail(timers)
    /\ loading' = FALSE
    /\ IF CapturedSlice(Head(timers)) = << >>
       THEN hasMore' = FALSE /\ displayedProducts' = displayedProducts
       ELSE /\ displayedProducts' = displayedProducts \o CapturedSlice(Head(timers))
            /\ hasMore' = hasMore

\* This step starts a load.
LoadStarted ==
    /\ Len(timers') = Len(timers) + 1
    /\ SubSeq(timers', 1, Len(timers)) = timers
    /\ loading' = TRUE

\* C10: a load that loadMore started is never cancelled: the pending timers
\* change only by a load starting or by the oldest one's callback running,
\* which applies the slice of its closure (or sets hasMore to false when that
\* slice is empty) and sets loading to false, also after the filter inputs
\* changed; and every pending timer's callback eventually runs.
C10_LoadCompletes ==
    /\ [][timers' # timers => (LoadStarted \/ LoadCompleted)]_vars
    /\ \A k \in 1..MaxTimers : (Len(timers) = k) ~> (Len(timers) < k)
    /\ loading ~> ~loading

\* A load that was pending when a filter input changed has completed and has
\* appended a slice of the earlier result.
C10_Witness ==
    /\ filterChanges > 0
    /\ timers = << >>
    /\ ~loading
    /\ Len(displayedProducts) > Len(Filtered)

\* The products of the current filtered result that the next load would
\* append: the slice after the displayed ones.
NextSliceOfCurrent ==
    SubSeq(Filtered, Len(displayedProducts) + 1,
           Min(Len(displayedProducts) + 12, Len(Filtered)))

\* C11: a load sets hasMore to false only when the next slice of the current
\* filtered result is empty; once false, hasMore stays false until a filter
\* input changes; and hasMore is never set to false in a filter state that
\* still has undisplayed products.
C11_HasMoreFalseOnlyWhenExhausted ==
    /\ [][(hasMore /\ ~hasMore' /\ ~FilterChanged) => NextSliceOfCurrent = << >>]_vars
    /\ [][(~hasMore /\ hasMore') => FilterChanged]_vars
    /\ [][(hasMore /\ ~hasMore') => Len(displayedProducts') >= Len(Filtered')]_vars

\* The catalog in its original order, as line 33 builds it.
OriginalCatalog == Tuple([i \in Ids |-> i], NumProducts)

\* The sequence the filter inputs derive from the catalog in its original
\* order: the products that match, sorted by the sort key, products with equal
\* keys in their original catalog order.
DerivedFromOriginal ==
    LET d == Derive(OriginalCatalog, localSearchQuery, currentCategory, sortBy)
    IN  IF d.ref.alias THEN d.catalog ELSE d.ref.items

\* C12: the filtered result is determined by (search text, category, sort key)
\* alone: whatever the history of earlier selections, it is the sequence these
\* three derive from the original catalog, products with equal sort keys in
\* their original catalog order.
C12_ResultDeterminedByTriple == Filtered = DerivedFromOriginal

\* The condition of the empty-result branch, line 334: the message and the
\* "Clear all filters" button are rendered.
EmptyResultState == Len(displayedProducts) = 0 /\ ~loading

\* C13: whenever no product matches the filter inputs, the screen reaches the
\* empty-result state (nothing displayed, loading false) and stays in it until
\* a filter input changes; "Clear all filters" sets the search text to empty
\* and the category to none and leaves the sort key unchanged.
C13_EmptyResultShown ==
    /\ (Len(Filtered) = 0) ~> (EmptyResultState \/ Len(Filtered) # 0)
    /\ [][(Len(Filtered) = 0 /\ EmptyResultState /\ ~FilterChanged)
             => EmptyResultState']_vars
    /\ [][ClearAllFilters =>
             /\ localSearchQuery' = << >>
             /\ currentCategory' = Null
             /\ sortBy' = sortBy]_vars

\* C14: in every reachable state every displayed product satisfies the
\* present search text and category, also after a load started under earlier
\* filter inputs has completed.
C14_DisplayedSatisfyFilters ==
    \A i \in 1..Len(displayedProducts) : SatisfiesFilters(displayedProducts[i])

\* C15: in every reachable state no product id occurs twice among the
\* displayed products, whatever the interleaving of scroll-triggered loads,
\* timer callbacks and filter changes.
C15_DisplayedIdsDistinct ==
    \A i, j \in 1..Len(displayedProducts) :
        i # j => Product(displayedProducts[i]).id # Product(displayedProducts[j]).id

\* Every product of the current filtered result is displayed.
AllDisplayed ==
    \A i \in 1..Len(Filtered) :
        \E j \in 1..Len(displayedProducts) : displayedProducts[j] = Filtered[i]

\* C16: once the filter inputs have stopped changing (they change at most
\* MaxFilterChanges times) and while scroll events keep coming and timers are
\* fairly scheduled, eventually every product of the current filtered result
\* is displayed, and the screen is never left with hasMore false while
\* filtered products remain undisplayed.
C16_EventuallyAllDisplayed ==
    /\ <>[]AllDisplayed
    /\ (~hasMore /\ ~AllDisplayed) ~> (hasMore \/ AllDisplayed)

\* C17: deriving the filtered result never modifies the catalog: whatever the
\* search text, category and sort key, extendedProducts holds the same
\* products in the same order after the derivation as before it.
C17_DerivationLeavesCatalog == [][extendedProducts' = extendedProducts]_vars

====
